---- MODULE Spec2Model ----
(***************************************************************************)
(* Model of brian2modelfitting's simulation executors (simulator.py) and   *)
(* of the metric engine exercised by tests/test_metric.py.                 *)
(***************************************************************************)
EXTENDS Integers, Sequences, FiniteSets, TLC

(* ------------------------------ bounds -------------------------------- *)
\* a run advances the network by 1..MaxDuration time steps
MaxDuration == 2
\* at most MaxCalls calls (initialize or run) are made on the executors
MaxCalls == 3
\* a trace handed to the metric engine has MaxSamples samples
MaxSamples == 2
\* the metric engine scores 1..MaxCandidates candidates per channel
MaxCandidates == 2

(* --------------------------- input universes --------------------------- *)
Vars == {"v", "g"}
Vals == {0, 1}
Names == {"fit", "alt"}
GoodNets == {"net1", "net2"}
BadNets == {"netNoMonitor", "netNoNeurons"}
Nets == GoodNets \cup BadNets
RtExecs == {"rt"}
CppExecs == {"cpp", "cpp2"}
\* the compiled executor the main specification drives
FirstCpp == {"cpp"}
Durations == 1..MaxDuration

\* dicts keyed by state-variable name (params, var_init)
Dicts == UNION {[S -> Vals] : S \in SUBSET Vars}

\* lists of distinct state-variable names (params_names, a dict's iteration order)
NameLists == {<<>>} \cup {<<x>> : x \in Vars}
                 \cup {<<x, y>> : <<x, y>> \in {z \in Vars \X Vars : z[1] # z[2]}}
Range(s) == {s[i] : i \in 1..Len(s)}

\* what a caller passes as (params, params_names): params_names lists the keys
\* of params, and params.items() visits them in that order
Batches == {b \in [names : NameLists, dict : Dicts] : Range(b.names) = DOMAIN b.dict}

\* an optional value: None, or Some(x)
None == {}
Some(x) == {x}
Get(o) == CHOOSE x \in o : TRUE
\* var_init: None, or initial values of the integrated variable
VarInits == {None} \cup {Some(d) : d \in {x \in Dicts : DOMAIN x \subseteq {"v"}}}

NoNet == "NoNet"

\* the named components a network object holds ('monitor' in network, ...)
Components(net) ==
    CASE net = "netNoMonitor" -> {"neurons"}
      [] net = "netNoNeurons" -> {"monitor"}
      [] OTHER -> {"neurons", "monitor"}

VARIABLES
    mode,        \* the process-wide brian2 device: "runtime" or "cpp_standalone"
    networks,    \* self.networks of each executor: name -> network object
    var_init,    \* self.var_init of each executor
    neurons,     \* state variables of network['neurons'], per network object
    clock,       \* network.t, per network object
    monitor,     \* samples recorded by network['monitor'], per network object
    stored,      \* the snapshot network.store() took, per network object
    params_init, \* self.params_init of each compiled executor (unset until assigned)
    has_been_run,  \* device.has_been_run
    static_arrays, \* device.static_arrays: identifier -> array
    main_queue,    \* device.main_queue: the deferred writes of the generated program
    files,         \* project_dir/static_arrays/<identifier>: the files on disk
    n_network_run, \* how often network.run (code generation) was invoked, compiled strategy
    n_run_again,   \* how often run_again re-invoked the generated program
    calls,       \* number of calls made so far
    repeated,    \* the call made last repeats the successful run made just before it
    last,        \* the call made last, with what it reported to the caller
    metric,      \* the metric engine's call: its arguments, stage and results
    reg_vi,      \* per executor and name, the var_init of the initialize that registered it
    inflight,    \* per name, the interpreted run in progress and the step it is at
    compiled_by  \* the executor and name whose run generated the code, once one did

netvars == <<neurons, clock, monitor, stored>>
devvars == <<has_been_run, static_arrays, main_queue, files, n_network_run, n_run_again>>
vars == <<mode, networks, var_init, neurons, clock, monitor, stored, params_init,
          has_been_run, static_arrays, main_queue, files, n_network_run,
          n_run_again, calls, repeated, last, metric, reg_vi, inflight,
          compiled_by>>
\* what no call of the main specification touches
aux == <<metric, reg_vi, inflight, compiled_by>>

Execs == RtExecs \cup CppExecs

(* --------------------------- network object ---------------------------- *)
NetState(net) == [neurons |-> neurons[net], t |-> clock[net], mon |-> monitor[net]]

\* one time step of the model: v integrates g, the monitor records v
StepOnce(st) ==
    LET nv == (st.neurons["v"] + st.neurons["g"] + 1) % 2
    IN  [neurons |-> [st.neurons EXCEPT !["v"] = nv],
         t |-> st.t + 1,
         mon |-> Append(st.mon, nv)]

RECURSIVE Advance(_, _)
\* network.run(duration, namespace={})
Advance(st, duration) ==
    IF duration = 0 THEN st ELSE Advance(StepOnce(st), duration - 1)

\* (mutant) run without the restore
Restore_Skipped(st, snap) == st

\* network.restore(): the state is the snapshot again
Restore(st, snap) == Get(snap)

\* network['neurons'].set_states(params, units=False)
SetStates(st, params) ==
    [st EXCEPT !.neurons = [x \in Vars |-> IF x \in DOMAIN params
                                             THEN params[x] ELSE st.neurons[x]]]

\* (mutant) var_init is never applied
ApplyVarInit_Skipped(st, vi) == st

\* for k, v in self.var_init.items(): network['neurons'].__setattr__(k, v)
ApplyVarInit(st, vi) ==
    IF vi = None THEN st
    ELSE [st EXCEPT !.neurons = [x \in Vars |-> IF x \in DOMAIN Get(vi)
                                                  THEN Get(vi)[x] ELSE st.neurons[x]]]

\* (mutant) params are pushed after var_init was applied
StartState_ParamsLast(st, snap, params, vi) ==
    SetStates(ApplyVarInit(Restore(st, snap), vi), params)

\* the state network.run is invoked on: restore, set_states, then var_init
StartState(st, snap, params, vi) ==
    ApplyVarInit(SetStates(Restore(st, snap), params), vi)

\* (mutant) the executor keeps one network: every name runs the one of 'fit'
Lookup_OneNetwork(e, name) == networks[e]["fit"]

\* (mutant) an unknown name falls back to the default network 'fit'
Lookup_DefaultName(e, name) ==
    IF networks[e][name] = NoNet THEN networks[e]["fit"] ELSE networks[e][name]

\* self.networks[name]
Lookup(e, name) == networks[e][name]

\* (mutant) only the monitor is looked for
HasRoles_MonitorOnly(net) == "monitor" \in Components(net)

\* 'monitor' in network and 'neurons' in network
HasRoles(net) == "monitor" \in Components(net) /\ "neurons" \in Components(net)

NoState == [neurons |-> [x \in Vars |-> 0], t |-> 0, mon |-> <<>>]

\* what the caller passed and what came back
\* (net: the network passed to initialize, or the one run looked up; vi: the
\*  var_init initialize recorded; advFrom: the state network.run was invoked on)
Call(op, e, name, net, vi, params, duration, result, advFrom) ==
    [op |-> op, exec |-> e, name |-> name, net |-> net, vi |-> vi, params |-> params,
     duration |-> duration, result |-> result, advFrom |-> advFrom]

\* the device before any executor call: empty, or holding the static array and
\* the deferred write that building the model with an array-valued v left there
PreArrays ==
    {[arrays |-> <<>>, queue |-> <<>>],
     [arrays |-> [id \in {<<"v", 0>>} |-> <<0>>],
      queue |-> <<[op |-> "set_by_array", array |-> "v", static |-> <<"v", 0>>]>>]}

\* no run in progress under a name
Idle == [pc |-> "idle"]

\* no metric call in progress
NoMetric == [kind |-> "none", stage |-> "idle"]

(* ------------------------------- Init ---------------------------------- *)
\* Simulator.__init__ for every executor, on a fresh device
Init ==
    /\ mode \in {"runtime", "cpp_standalone"}
    /\ networks = [e \in Execs |-> [n \in Names |-> NoNet]]
    /\ var_init = [e \in Execs |-> None]
    /\ neurons = [n \in Nets |-> [x \in Vars |-> 0]]
    /\ clock = [n \in Nets |-> 0]
    /\ monitor = [n \in Nets |-> <<>>]
    /\ stored = [n \in Nets |-> None]
    /\ params_init = [e \in CppExecs |-> None]
    /\ has_been_run = FALSE
    /\ \E pre \in PreArrays :
          /\ mode = "runtime" => pre.arrays = <<>>
          /\ static_arrays = pre.arrays
          /\ main_queue = pre.queue
    /\ files = <<>>
    /\ n_network_run = 0
    /\ n_run_again = 0
    /\ calls = 0
    /\ repeated = FALSE
    /\ last = Call("none", "none", "fit", NoNet, None, <<>>, 0, "ok", NoState)
    /\ metric = NoMetric
    /\ reg_vi = [e \in Execs |-> [n \in Names |-> None]]
    /\ inflight = [n \in Names |-> Idle]
    /\ compiled_by = None

\* the call c was a successful run with these very arguments
SameRun(c, e, name, params, duration) ==
    /\ c.op = "run" /\ c.result = "ok" /\ c.exec = e /\ c.name = name
    /\ c.params = params /\ c.duration = duration

(* ------------------------- RuntimeSimulator ---------------------------- *)
\* (mutant) the snapshot is of a blank network, not of the network as it is
InitStore_Blank(net) == [stored EXCEPT ![net] = Some(NoState)]

\* network.store(), the last statement of RuntimeSimulator.initialize
InitStore(net) == [stored EXCEPT ![net] = Some(NetState(net))]

\* (mutant) var_init is recorded before the network is validated
RtInitializeCall_RecordFirst(e, net, vi, name) ==
    /\ mode = "runtime"
    /\ calls' = calls + 1
    /\ var_init' = [var_init EXCEPT ![e] = vi]
    /\ IF ~HasRoles(net)
       THEN /\ last' = Call("initialize", e, name, net, None, <<>>, 0, "KeyError", NoState)
            /\ UNCHANGED <<networks, stored>>
       ELSE /\ networks' = [networks EXCEPT ![e][name] = net]
            /\ stored' = InitStore(net)
            /\ last' = Call("initialize", e, name, net, vi, <<>>, 0, "ok", NoState)
    /\ repeated' = FALSE
    /\ UNCHANGED <<mode, neurons, clock, monitor, params_init, devvars>>

\* RuntimeSimulator.initialize(network, var_init, name)
RtInitializeCall(e, net, vi, name) ==
    /\ mode = "runtime"
    /\ calls' = calls + 1
    /\ IF ~HasRoles(net)
       THEN /\ last' = Call("initialize", e, name, net, None, <<>>, 0, "KeyError", NoState)
            /\ UNCHANGED <<networks, var_init, stored>>
       ELSE /\ networks' = [networks EXCEPT ![e][name] = net]
            /\ var_init' = [var_init EXCEPT ![e] = vi]
            /\ stored' = InitStore(net)
            /\ last' = Call("initialize", e, name, net, vi, <<>>, 0, "ok", NoState)
    /\ repeated' = FALSE
    /\ UNCHANGED <<mode, neurons, clock, monitor, params_init, devvars>>

RtInitialize(e, net, vi, name) ==
    calls < MaxCalls /\ RtInitializeCall(e, net, vi, name) /\ UNCHANGED aux

\* RuntimeSimulator.run(duration, params, params_names, name)
RtRunCall(e, duration, params, name) ==
    /\ mode = "runtime"
    /\ calls' = calls + 1
    /\ LET net == Lookup(e, name) IN
       IF net = NoNet
       THEN /\ last' = Call("run", e, name, NoNet, None, params, duration, "KeyError", NoState)
            /\ repeated' = FALSE
            /\ UNCHANGED <<neurons, clock, monitor>>
       ELSE LET s3 == StartState(NetState(net), stored[net], params, var_init[e])
                s4 == Advance(s3, duration)
            IN  /\ neurons' = [neurons EXCEPT ![net] = s4.neurons]
                /\ clock' = [clock EXCEPT ![net] = s4.t]
                /\ monitor' = [monitor EXCEPT ![net] = s4.mon]
                /\ last' = Call("run", e, name, net, None, params, duration, "ok", s3)
                /\ repeated' = SameRun(last, e, name, params, duration)
    /\ UNCHANGED <<mode, networks, var_init, stored, params_init, devvars>>

RtRun(e, duration, params, name) ==
    calls < MaxCalls /\ RtRunCall(e, duration, params, name) /\ UNCHANGED aux

(* ---------------------- compiled backend (device) ---------------------- *)
\* np.atleast_1d(value)
AtLeast1d(value) == <<value>>

\* f with key k (added or overwritten) holding x
Put(f, k, x) == [y \in DOMAIN f \cup {k} |-> IF y = k THEN x ELSE f[y]]

\* (mutant) the identifier is the array's base name, whether taken or not
FreshId_Reused(arrays, array_name) == <<array_name, 0>>

\* device.static_array(array_name, value): an identifier no array holds yet
FreshId(arrays, array_name) ==
    <<array_name, Cardinality({id \in DOMAIN arrays : id[1] = array_name})>>

\* initialize_parameter: dev is [arrays, queue, id]; id is the value returned
initialize_parameter(dev, array_name, value) ==
    LET static_array_name == FreshId(dev.arrays, array_name)
    IN  [arrays |-> Put(dev.arrays, static_array_name, AtLeast1d(value)),
         queue |-> Append(dev.queue, [op |-> "set_by_array", array |-> array_name,
                                      static |-> static_array_name]),
         id |-> static_array_name]

RECURSIVE initialize_neurons(_, _, _)
\* the loop of initialize_neurons over params_names[1..], acc is
\* [arrays, queue, params_init, ok]; params[name] of a missing name raises KeyError
initialize_neurons(params_names, params, acc) ==
    IF params_names = <<>> \/ ~acc.ok THEN acc
    ELSE LET name == Head(params_names) IN
         IF name \notin DOMAIN params
         THEN [acc EXCEPT !.ok = FALSE]
         ELSE LET r == initialize_parameter([arrays |-> acc.arrays, queue |-> acc.queue],
                                            name, params[name])
              IN  initialize_neurons(Tail(params_names), params,
                     [arrays |-> r.arrays, queue |-> r.queue,
                      params_init |-> Put(acc.params_init, name, r.id), ok |-> TRUE])

\* (mutant) the file written is the one of the array's base name
set_parameter_value_Base(fs, identifier, value) ==
    Put(fs, <<identifier[1], 0>>, AtLeast1d(value))

\* set_parameter_value(identifier, value)
set_parameter_value(fs, identifier, value) == Put(fs, identifier, AtLeast1d(value))

RECURSIVE set_states(_, _, _, _)
\* set_states(init_dict, values), visiting values.items() in the dict's order;
\* acc is [files, ok]; init_dict[obj_name] of a missing name raises KeyError
set_states(init_dict, values, order, acc) ==
    IF order = <<>> \/ ~acc.ok THEN acc
    ELSE LET obj_name == Head(order) IN
         IF obj_name \notin DOMAIN init_dict
         THEN [acc EXCEPT !.ok = FALSE]
         ELSE set_states(init_dict, values, Tail(order),
                 [files |-> set_parameter_value(acc.files, init_dict[obj_name],
                                                values[obj_name]),
                  ok |-> TRUE])

(* ----------------------- CPPStandaloneSimulator ------------------------ *)
\* CPPStandaloneSimulator.initialize(network, var_init, name)
CppInitializeCall(e, net, vi, name) ==
    /\ mode = "cpp_standalone"
    /\ calls' = calls + 1
    /\ IF ~HasRoles(net)
       THEN /\ last' = Call("initialize", e, name, net, None, <<>>, 0, "KeyError", NoState)
            /\ UNCHANGED <<networks, var_init>>
       ELSE /\ networks' = [networks EXCEPT ![e][name] = net]
            /\ var_init' = [var_init EXCEPT ![e] = vi]
            /\ last' = Call("initialize", e, name, net, vi, <<>>, 0, "ok", NoState)
    /\ UNCHANGED <<mode, netvars, params_init, devvars, repeated>>

CppInitialize(e, net, vi, name) ==
    calls < MaxCalls /\ CppInitializeCall(e, net, vi, name) /\ UNCHANGED aux

\* (mutant) the first stage is taken on every run
FirstRunPath_Always(e) == TRUE

\* if not device.has_been_run
FirstRunPath(e) == ~has_been_run

\* the first stage: initialize_neurons, var_init, network.run (code generation,
\* which writes every static array to its file and sets device.has_been_run)
CppFirstRun(e, net, params, params_names, name) ==
    LET r == initialize_neurons(params_names, params,
                 [arrays |-> static_arrays, queue |-> main_queue,
                  params_init |-> <<>>, ok |-> TRUE])
        s3 == ApplyVarInit(NetState(net), var_init[e])
    IN  /\ static_arrays' = r.arrays
        /\ main_queue' = r.queue
        /\ IF ~r.ok
           THEN /\ last' = Call("run", e, name, net, None, <<>>, 0, "KeyError", NoState)
                /\ UNCHANGED <<params_init, neurons, has_been_run, files, n_network_run>>
           ELSE /\ params_init' = [params_init EXCEPT ![e] = Some(r.params_init)]
                /\ neurons' = [neurons EXCEPT ![net] = s3.neurons]
                /\ has_been_run' = TRUE
                /\ files' = r.arrays
                /\ n_network_run' = n_network_run + 1
                /\ last' = Call("run", e, name, net, None, <<>>, 0, "ok", s3)
        /\ UNCHANGED <<n_run_again>>

\* the second stage: set_states(self.params_init, params), run_again();
\* self.params_init of an executor that never assigned it raises AttributeError
CppRunAgain(e, net, params, params_names, name) ==
    /\ IF params_init[e] = None
       THEN /\ last' = Call("run", e, name, net, None, <<>>, 0, "AttributeError", NoState)
            /\ UNCHANGED <<files, n_run_again>>
       ELSE LET r == set_states(Get(params_init[e]), params, params_names,
                                [files |-> files, ok |-> TRUE])
            IN  /\ files' = r.files
                /\ n_run_again' = IF r.ok THEN n_run_again + 1 ELSE n_run_again
                /\ last' = Call("run", e, name, net, None, <<>>, 0,
                                IF r.ok THEN "ok" ELSE "KeyError", NoState)
    /\ UNCHANGED <<neurons, params_init, has_been_run, static_arrays, main_queue,
                   n_network_run>>

\* CPPStandaloneSimulator.run(duration, params, params_names, name)
CppRunCall(e, duration, params, params_names, name) ==
    /\ mode = "cpp_standalone"
    /\ calls' = calls + 1
    /\ LET net == Lookup(e, name) IN
       IF net = NoNet
       THEN /\ last' = Call("run", e, name, NoNet, None, <<>>, 0, "KeyError", NoState)
            /\ UNCHANGED <<neurons, params_init, devvars>>
       ELSE IF FirstRunPath(e)
            THEN CppFirstRun(e, net, params, params_names, name)
            ELSE CppRunAgain(e, net, params, params_names, name)
    /\ UNCHANGED <<mode, networks, var_init, clock, monitor, stored, repeated>>

CppRun(e, duration, params, params_names, name) ==
    /\ calls < MaxCalls /\ CppRunCall(e, duration, params, params_names, name)
    /\ UNCHANGED aux

(* ------------------------------- Next ---------------------------------- *)
Next ==
    \/ \E e \in RtExecs, net \in Nets, vi \in VarInits, name \in Names :
          RtInitialize(e, net, vi, name)
    \/ \E e \in RtExecs, d \in Durations, p \in Dicts, name \in Names :
          RtRun(e, d, p, name)
    \/ \E e \in FirstCpp, net \in Nets, vi \in VarInits, name \in Names :
          CppInitialize(e, net, vi, name)
    \/ \E e \in FirstCpp, d \in Durations, b \in Batches, name \in Names :
          CppRun(e, d, b.dict, b.names, name)

Spec == Init /\ [][Next]_vars

(* ------------- the calls again, every registration on record ----------- *)
\* initialize, with the var_init it was passed kept per name once it succeeded
NamedRtInitialize(e, net, vi, name) ==
    /\ calls < MaxCalls
    /\ RtInitializeCall(e, net, vi, name)
    /\ reg_vi' = IF HasRoles(net) THEN [reg_vi EXCEPT ![e][name] = vi] ELSE reg_vi
    /\ UNCHANGED <<metric, inflight, compiled_by>>

NamedCppInitialize(e, net, vi, name) ==
    /\ calls < MaxCalls
    /\ CppInitializeCall(e, net, vi, name)
    /\ reg_vi' = IF HasRoles(net) THEN [reg_vi EXCEPT ![e][name] = vi] ELSE reg_vi
    /\ UNCHANGED <<metric, inflight, compiled_by>>

NextNames ==
    \/ \E e \in RtExecs, net \in Nets, vi \in VarInits, name \in Names :
          NamedRtInitialize(e, net, vi, name)
    \/ \E e \in RtExecs, d \in Durations, p \in Dicts, name \in Names :
          RtRun(e, d, p, name)
    \/ \E e \in FirstCpp, net \in Nets, vi \in VarInits, name \in Names :
          NamedCppInitialize(e, net, vi, name)
    \/ \E e \in FirstCpp, d \in Durations, b \in Batches, name \in Names :
          CppRun(e, d, b.dict, b.names, name)

SpecNames == Init /\ [][NextNames]_vars
(* --------------- two compiled executors on the one device -------------- *)
\* at most MaxSharedCalls calls are made on the two executors
MaxSharedCalls == 4

\* the batches of a fit: always the one parameter g
FixedBatches == {b \in Batches : b.names = <<"g">>}

SharedInitialize(e, net, name) ==
    /\ calls < MaxSharedCalls
    /\ CppInitializeCall(e, net, None, name)
    /\ UNCHANGED aux

\* run, with the run that takes the first stage kept on record
SharedRun(e, duration, params, params_names, name) ==
    /\ calls < MaxSharedCalls
    /\ CppRunCall(e, duration, params, params_names, name)
    /\ compiled_by' = IF FirstRunPath(e) /\ Lookup(e, name) # NoNet
                      THEN Some([exec |-> e, name |-> name]) ELSE compiled_by
    /\ UNCHANGED <<metric, reg_vi, inflight>>

InitShared == Init /\ mode = "cpp_standalone"

NextShared ==
    \/ \E e \in CppExecs, net \in GoodNets, name \in Names :
          SharedInitialize(e, net, name)
    \/ \E e \in CppExecs, d \in Durations, b \in FixedBatches, name \in Names :
          SharedRun(e, d, b.dict, b.names, name)

SpecShared == InitShared /\ [][NextShared]_vars
(* ------------- interpreted runs on two names, step by step ------------- *)
\* at most MaxConcCalls calls are begun on the executor
MaxConcCalls == 4

\* what the concurrent callers pass: a value for g, a var_init for v or none
ConcParams == {b.dict : b \in FixedBatches}
ConcVarInits == {None, Some([x \in {"v"} |-> 1])}

\* initialize, made while no run is in progress; no network object is
\* registered under two names
ConcInitialize(e, net, vi, name) ==
    /\ calls < MaxConcCalls
    /\ \A n \in Names : inflight[n] = Idle
    /\ \A n \in Names \ {name} : networks[e][n] # net
    /\ RtInitializeCall(e, net, vi, name)
    /\ UNCHANGED aux

\* network = self.networks[name]; at most one run per name is in progress
RunBegin(e, duration, params, name) ==
    /\ mode = "runtime"
    /\ calls < MaxConcCalls
    /\ inflight[name] = Idle
    /\ calls' = calls + 1
    /\ LET net == Lookup(e, name) IN
       IF net = NoNet
       THEN /\ last' = Call("run", e, name, NoNet, None, params, duration, "KeyError", NoState)
            /\ UNCHANGED inflight
       ELSE /\ inflight' = [inflight EXCEPT ![name] =
                               [pc |-> "restore", exec |-> e, net |-> net,
                                params |-> params, duration |-> duration]]
            /\ UNCHANGED last
    /\ repeated' = FALSE
    /\ UNCHANGED <<mode, networks, var_init, netvars, params_init, devvars, metric,
                   reg_vi, compiled_by>>

\* the network of the run in progress under name becomes st, the run moves to pc
RunStep(name, st, pc) ==
    LET net == inflight[name].net IN
    /\ neurons' = [neurons EXCEPT ![net] = st.neurons]
    /\ clock' = [clock EXCEPT ![net] = st.t]
    /\ monitor' = [monitor EXCEPT ![net] = st.mon]
    /\ inflight' = [inflight EXCEPT ![name] =
                       IF pc = "idle" THEN Idle ELSE [inflight[name] EXCEPT !.pc = pc]]
    /\ UNCHANGED <<mode, networks, var_init, stored, params_init, devvars, calls,
                   repeated, metric, reg_vi, compiled_by>>

\* network.restore()
RunRestore(name) ==
    /\ inflight[name].pc = "restore"
    /\ LET net == inflight[name].net
       IN  RunStep(name, Restore(NetState(net), stored[net]), "set_states")
    /\ UNCHANGED last

\* network['neurons'].set_states(params, units=False)
RunSetStates(name) ==
    /\ inflight[name].pc = "set_states"
    /\ RunStep(name, SetStates(NetState(inflight[name].net), inflight[name].params),
               "var_init")
    /\ UNCHANGED last

\* the var_init loop, on self.var_init as it is now
RunVarInit(name) ==
    /\ inflight[name].pc = "var_init"
    /\ RunStep(name, ApplyVarInit(NetState(inflight[name].net),
                                  var_init[inflight[name].exec]), "advance")
    /\ UNCHANGED last

\* network.run(duration, namespace={})
RunAdvance(name) ==
    /\ inflight[name].pc = "advance"
    /\ LET r == inflight[name] IN
       /\ RunStep(name, Advance(NetState(r.net), r.duration), "idle")
       /\ last' = Call("run", r.exec, name, r.net, None, r.params, r.duration, "ok",
                       NetState(r.net))

InitConc == Init /\ mode = "runtime"

NextConc ==
    \/ \E e \in RtExecs, net \in GoodNets, vi \in ConcVarInits, name \in Names :
          ConcInitialize(e, net, vi, name)
    \/ \E e \in RtExecs, d \in Durations, p \in ConcParams, name \in Names :
          RunBegin(e, d, p, name)
    \/ \E name \in Names : RunRestore(name)
    \/ \E name \in Names : RunSetStates(name)
    \/ \E name \in Names : RunVarInit(name)
    \/ \E name \in Names : RunAdvance(name)

SpecConc == InitConc /\ [][NextConc]_vars

(* --------------------------- metric engine ----------------------------- *)
\* a sample of a continuous trace; the channels, time steps and windows tried
Samples == {0, 1}
Traces == [1..MaxSamples -> Samples]
Channels == {1, 2}
TimeSteps == {1, 2}
Windows == {0, 1}
Shifts == {0, 1}

\* exact fractions num/den, den > 0, in lowest terms
RECURSIVE GCD(_, _)
GCD(a, b) == IF b = 0 THEN a ELSE GCD(b, a % b)
Rat(n, d) == [num |-> n \div GCD(n, d), den |-> d \div GCD(n, d)]
RatAdd(a, b) == Rat(a.num * b.den + b.num * a.den, a.den * b.den)
RatDiv(a, k) == Rat(a.num, a.den * k)
Zero == Rat(0, 1)

\* t_start converted to a sample index via dt
StartIndex(t_start, dt) == t_start \div dt

RECURSIVE SumSq(_, _, _)
\* sum of the squared differences of the samples i, i+1, ... of two traces
SumSq(sim, tgt, i) ==
    IF i > Len(sim) THEN 0
    ELSE (sim[i] - tgt[i]) * (sim[i] - tgt[i]) + SumSq(sim, tgt, i + 1)

\* (mutant) the leading samples are dropped from the simulated trace only
MeanSquare_ShiftedSim(sim, tgt, start) ==
    Rat(SumSq(SubSeq(sim, start + 1, Len(sim)), tgt, 1), Len(sim) - start)

\* mean squared difference over the samples at or after index start
MeanSquare(sim, tgt, start) == Rat(SumSq(sim, tgt, start + 1), Len(sim) - start)

\* the events of a train at or after t_start
EventsFrom(events, t_start) == SelectSeq(events, LAMBDA t : t >= t_start)

Abs(x) == IF x < 0 THEN -x ELSE x
RemoveAt(seq, i) == SubSeq(seq, 1, i - 1) \o SubSeq(seq, i + 1, Len(seq))

RECURSIVE Coincidences(_, _, _)
\* target events within +-window of a source event, each target event matching
\* at most one source event and each source event matched at most once
Coincidences(src, tgt, window) ==
    IF src = <<>> \/ tgt = <<>> THEN 0
    ELSE LET near == {i \in 1..Len(src) : Abs(src[i] - Head(tgt)) <= window} IN
         IF near = {} THEN Coincidences(src, Tail(tgt), window)
         ELSE LET i == CHOOSE j \in near : \A k \in near : j <= k
              IN  1 + Coincidences(RemoveAt(src, i), Tail(tgt), window)

\* pairwise_distance, as far as it is specified: the coincidence count (the
\* normalisation by rates and event counts is not given)
pairwise_distance(src, tgt, window) == Rat(Coincidences(src, tgt, window), 1)

\* the feature of one (channel, candidate) pair
Feature(m, sim, tgt) ==
    IF m.kind = "mse" THEN MeanSquare(sim, tgt, StartIndex(m.t_start, m.dt))
    ELSE pairwise_distance(EventsFrom(sim, m.t_start), tgt, m.window)

\* (mutant) the flat list is cut into n_candidates rows of n_channels
Reshape_Transposed(flat, rows, cols) ==
    [c \in 1..cols |-> [k \in 1..rows |-> flat[(c - 1) * rows + k]]]

\* the flat list of features as rows x cols
Reshape(flat, rows, cols) ==
    [c \in 1..rows |-> [k \in 1..cols |-> flat[(c - 1) * cols + k]]]

\* compute_features: the candidates of a channel are contiguous rows of simulated
compute_features(m, simulated, target, n_channels) ==
    LET n == Len(simulated) \div n_channels
        flat == [j \in 1..(n_channels * n) |->
                    Feature(m, simulated[j], target[((j - 1) \div n) + 1])]
    IN  Reshape(flat, n_channels, n)

RECURSIVE ColumnSum(_, _, _)
ColumnSum(features, k, c) ==
    IF c > Len(features) THEN Zero
    ELSE RatAdd(features[c][k], ColumnSum(features, k, c + 1))

\* compute_errors: the mean of every candidate's features across the channels
compute_errors(features) ==
    [k \in 1..Len(features[1]) |-> RatDiv(ColumnSum(features, k, 1), Len(features))]

\* (mutant) calc scores every sample, whatever t_start is
compute_error_FromZero(m, simulated, target, n_channels) ==
    compute_errors(compute_features([m EXCEPT !.t_start = 0], simulated, target,
                                    n_channels))

\* compute_error (calc): compute_features, then compute_errors
compute_error(m, simulated, target, n_channels) ==
    compute_errors(compute_features(m, simulated, target, n_channels))

\* how an argument reaches the GammaFactor constructor: not passed, passed as a
\* bare number (delta=10), or passed as a time quantity (delta=10*ms)
ArgForms == {"missing", "number", "time"}

\* (mutant) only delta is validated
GammaFactorInit_DeltaOnly(delta, time) ==
    IF delta = "number" THEN "DimensionMismatchError"
    ELSE IF delta = "missing" THEN "TypeError" ELSE "ok"

\* GammaFactor(delta, time): both must be given, with a time dimension
GammaFactorInit(delta, time) ==
    IF "number" \in {delta, time} THEN "DimensionMismatchError"
    ELSE IF "missing" \in {delta, time} THEN "TypeError" ELSE "ok"

\* a trace as the engine of the given kind takes it: the samples plus shift, or
\* the times (shifted) of the samples that are 1
AsInput(kind, trace, shift) ==
    IF kind = "mse" THEN [i \in 1..Len(trace) |-> trace[i] + shift]
    ELSE LET idx == [i \in 1..Len(trace) |-> i - 1 + shift]
         IN  SelectSeq(idx, LAMBDA t : trace[t - shift + 1] = 1)

\* the calls made on the metric engine: n_channels target traces, and for every
\* channel n_candidates simulated ones (the target shifted per candidate);
\* t_start leaves at least one sample
MetricCalls ==
    {[kind |-> kind, stage |-> "new", n_channels |-> n, n_candidates |-> k,
      delta |-> IF kind = "gamma" THEN "time" ELSE "missing",
      time |-> IF kind = "gamma" THEN "time" ELSE "missing", error |-> "none",
      dt |-> dt, t_start |-> i * dt, window |-> w,
      target |-> [c \in 1..n |-> AsInput(kind, x[c], 0)],
      simulated |-> [j \in 1..(n * k) |->
                        AsInput(kind, x[((j - 1) \div k) + 1], d[((j - 1) % k) + 1])],
      features |-> <<>>, errors |-> <<>>, calc |-> <<>>] :
        kind \in {"mse", "gamma"}, n \in Channels, k \in 1..MaxCandidates,
        dt \in TimeSteps, i \in 0..(MaxSamples - 1), w \in Windows,
        x \in [Channels -> Traces], d \in [1..MaxCandidates -> Shifts]}

\* the same calls on a GammaFactor of every other construction (one channel,
\* one candidate: the data never reach an engine that was not constructed)
BadConstructions ==
    {[c EXCEPT !.delta = a, !.time = b] :
        c \in {m \in MetricCalls : /\ m.kind = "gamma" /\ m.n_channels = 1
                                    /\ m.n_candidates = 1 /\ m.t_start = 0},
        a \in ArgForms, b \in ArgForms}

\* MSEMetric(t_start) / GammaFactor(delta, time)
Construct ==
    /\ metric.stage = "new"
    /\ LET r == IF metric.kind = "gamma"
                THEN GammaFactorInit(metric.delta, metric.time) ELSE "ok"
       IN  metric' = [metric EXCEPT !.stage = IF r = "ok" THEN "input" ELSE "failed",
                                    !.error = IF r = "ok" THEN "none" ELSE r]
    /\ UNCHANGED <<mode, networks, var_init, netvars, params_init, devvars, calls,
                   repeated, last, reg_vi, inflight, compiled_by>>

GetFeatures ==
    /\ metric.stage = "input"
    /\ metric' = [metric EXCEPT
                    !.stage = "features",
                    !.features = compute_features(metric, metric.simulated,
                                                  metric.target, metric.n_channels)]
    /\ UNCHANGED <<mode, networks, var_init, netvars, params_init, devvars, calls,
                   repeated, last, reg_vi, inflight, compiled_by>>

GetErrors ==
    /\ metric.stage = "features"
    /\ metric' = [metric EXCEPT !.stage = "errors",
                                !.errors = compute_errors(metric.features)]
    /\ UNCHANGED <<mode, networks, var_init, netvars, params_init, devvars, calls,
                   repeated, last, reg_vi, inflight, compiled_by>>

\* calc on the arguments get_features was called on
Calc ==
    /\ metric.stage = "errors"
    /\ metric' = [metric EXCEPT !.stage = "done",
                                !.calc = compute_error(metric, metric.simulated,
                                                       metric.target, metric.n_channels)]
    /\ UNCHANGED <<mode, networks, var_init, netvars, params_init, devvars, calls,
                   repeated, last, reg_vi, inflight, compiled_by>>

InitMetric ==
    /\ metric \in MetricCalls \cup BadConstructions
    /\ mode = "runtime"
    /\ networks = [e \in Execs |-> [n \in Names |-> NoNet]]
    /\ var_init = [e \in Execs |-> None]
    /\ neurons = [n \in Nets |-> [x \in Vars |-> 0]]
    /\ clock = [n \in Nets |-> 0]
    /\ monitor = [n \in Nets |-> <<>>]
    /\ stored = [n \in Nets |-> None]
    /\ params_init = [e \in CppExecs |-> None]
    /\ has_been_run = FALSE
    /\ static_arrays = <<>>
    /\ main_queue = <<>>
    /\ files = <<>>
    /\ n_network_run = 0
    /\ n_run_again = 0
    /\ calls = 0
    /\ repeated = FALSE
    /\ last = Call("none", "none", "fit", NoNet, None, <<>>, 0, "ok", NoState)
    /\ reg_vi = [e \in Execs |-> [n \in Names |-> None]]
    /\ inflight = [n \in Names |-> Idle]
    /\ compiled_by = None

NextMetric == Construct \/ GetFeatures \/ GetErrors \/ Calc

SpecMetric == InitMetric /\ [][NextMetric]_vars

(* ------------------------------ properties ----------------------------- *)
\* what an executor call can change, the call record and count aside
progvars == <<networks, var_init, neurons, clock, monitor, stored, params_init,
              has_been_run, static_arrays, main_queue, files, n_network_run,
              n_run_again>>

\* the network lacks one of the two required named components
Lacking(net) == ~({"neurons", "monitor"} \subseteq Components(net))

\* C1: in the interpreted strategy, a successful run that repeats the run made
\* just before it (same executor, name, params and duration) advances the
\* network from the same state as that run did and leaves the same monitor
\* trace, model state and clock behind.
C1_RestorePointIsolation ==
    [][repeated' =>
          /\ last'.advFrom = last.advFrom
          /\ monitor'[last'.net] = monitor[last'.net]
          /\ neurons'[last'.net] = neurons[last'.net]
          /\ clock'[last'.net] = clock[last'.net]]_vars

\* a second identical run has been made, and the runs recorded something
C1_Witness ==
    /\ repeated
    /\ monitor[last.net] # <<>>
    /\ last.advFrom.neurons # NoState.neurons

\* C2: in the compiled strategy code generation (network.run) happens at most
\* once; device.has_been_run becomes true exactly with it, on a successful run,
\* and never becomes false again; later runs generate no code.
C2_CompiledOnce ==
    /\ [](n_network_run <= 1 /\ (has_been_run <=> n_network_run = 1))
    /\ [][/\ has_been_run => has_been_run' /\ n_network_run' = n_network_run
          /\ ~has_been_run /\ has_been_run' =>
                last'.op = "run" /\ last'.result = "ok" /\ n_network_run' = 1]_vars

\* a run after the first one took the re-run path
C2_Witness == has_been_run /\ n_network_run = 1 /\ n_run_again >= 1

\* C3: initialize on a network lacking 'neurons' or 'monitor' reports KeyError
\* and changes nothing; such a network is never registered, stored or run.
C3_MissingRoleRejected ==
    /\ [](\A net \in Nets : Lacking(net) =>
             /\ \A e \in Execs, n \in Names : networks[e][n] # net
             /\ stored[net] = None /\ clock[net] = 0 /\ monitor[net] = <<>>)
    /\ [][last'.op = "initialize" /\ Lacking(last'.net) =>
             last'.result = "KeyError" /\ UNCHANGED progvars]_vars

\* an initialize was rejected on an executor that holds a registered network
C3_Witness ==
    /\ last.op = "initialize" /\ last.result = "KeyError" /\ Lacking(last.net)
    /\ \E n \in Names : networks[last.exec][n] # NoNet

\* C4: run with a name the executor has no network for reports KeyError and
\* changes nothing: no restore, no mutation, no injection, no advance, no re-run.
C4_UnregisteredName ==
    [][last'.op = "run" /\ networks[last'.exec][last'.name] = NoNet =>
          last'.result = "KeyError" /\ UNCHANGED progvars]_vars

\* a run on an unregistered name failed while another name was registered
C4_Witness ==
    /\ last.op = "run" /\ last.result = "KeyError"
    /\ networks[last.exec][last.name] = NoNet
    /\ \E n \in Names : networks[last.exec][n] # NoNet

\* C5: a compiled run made once device.has_been_run holds writes only the files
\* of the identifiers self.params_init maps the names of params to, each with
\* its new value, and then re-invokes the program once; it applies no var_init,
\* queues no deferred write, allocates no identifier and leaves every other
\* file, the mapping and the registered networks as they were.
C5_RerunWritesParamsOnly ==
    [][mode = "cpp_standalone" /\ has_been_run /\ last'.op = "run"
       /\ last'.net # NoNet =>
          \A b \in Batches :
             CppRunAgain(last'.exec, last'.net, b.dict, b.names, last'.name) =>
                LET e == last'.exec IN
                /\ UNCHANGED <<networks, var_init, neurons, clock, monitor, stored,
                               params_init, has_been_run, static_arrays, main_queue,
                               n_network_run>>
                /\ DOMAIN files' = DOMAIN files
                /\ \A id \in DOMAIN files :
                      files'[id] # files[id] =>
                         /\ params_init[e] # None
                         /\ \E n \in DOMAIN b.dict :
                               /\ n \in DOMAIN Get(params_init[e])
                               /\ Get(params_init[e])[n] = id
                               /\ files'[id] = AtLeast1d(b.dict[n])
                /\ last'.result = "ok" =>
                      /\ n_run_again' = n_run_again + 1
                      /\ \A n \in DOMAIN b.dict :
                            files'[Get(params_init[e])[n]] = AtLeast1d(b.dict[n])
                /\ last'.result # "ok" => n_run_again' = n_run_again]_vars

\* a re-run overwrote one of several files, with a var_init on record
C5_Witness ==
    /\ mode = "cpp_standalone" /\ has_been_run /\ n_run_again >= 1
    /\ last.op = "run" /\ last.result = "ok"
    /\ var_init[last.exec] # None /\ Get(var_init[last.exec]) # <<>>
    /\ Cardinality(DOMAIN files) >= 2
    /\ \E id \in DOMAIN files : files[id] # static_arrays[id]
    /\ \E id \in DOMAIN files : files[id] = static_arrays[id]

C7_InitializeRegisters ==
    [][last'.op = "initialize" /\ last'.result = "ok" =>
          LET e == last'.exec
              net == last'.net
          IN  /\ networks' = [networks EXCEPT ![e][last'.name] = net]
              /\ var_init' = [var_init EXCEPT ![e] = last'.vi]
              /\ UNCHANGED <<neurons, clock, monitor, params_init, has_been_run,
                             static_arrays, main_queue, files, n_network_run,
                             n_run_again>>
              /\ mode = "runtime" =>
                    stored' = [stored EXCEPT ![net] = Some(NetState(net))]
              /\ mode = "cpp_standalone" => UNCHANGED stored]_vars

\* an interpreted initialize stored a network that had already run
C7_Witness ==
    /\ mode = "runtime" /\ last.op = "initialize" /\ last.result = "ok"
    /\ networks[last.exec][last.name] = last.net
    /\ stored[last.net] = Some(NetState(last.net))
    /\ monitor[last.net] # <<>>

\* C8: the mapping initialize_neurons returns has exactly the names of
\* params_names as keys; each maps to an identifier of that variable which no
\* array held before and whose array is params[name]; one set_by_array write per
\* name is appended to the queue, in params_names order; older arrays and
\* queued writes stay.
C8_RegisterAndInject ==
    [][mode = "cpp_standalone" /\ ~has_been_run /\ last'.op = "run"
       /\ last'.net # NoNet =>
          \A b \in Batches :
             CppFirstRun(last'.exec, last'.net, b.dict, b.names, last'.name) =>
                LET ret == Get(params_init'[last'.exec]) IN
                /\ DOMAIN ret = Range(b.names)
                /\ \A i \in 1..Len(b.names) :
                      LET name == b.names[i] IN
                      /\ ret[name][1] = name
                      /\ ret[name] \notin DOMAIN static_arrays
                      /\ static_arrays'[ret[name]] = AtLeast1d(b.dict[name])
                      /\ main_queue'[Len(main_queue) + i] =
                            [op |-> "set_by_array", array |-> name,
                             static |-> ret[name]]
                /\ Len(main_queue') = Len(main_queue) + Len(b.names)
                /\ SubSeq(main_queue', 1, Len(main_queue)) = main_queue
                /\ DOMAIN static_arrays' =
                      DOMAIN static_arrays \cup {ret[n] : n \in Range(b.names)}
                /\ \A id \in DOMAIN static_arrays :
                      static_arrays'[id] = static_arrays[id]]_vars

\* a mapping of two names was returned, one identifier next to an older array
C8_Witness ==
    /\ mode = "cpp_standalone" /\ params_init["cpp"] # None
    /\ Cardinality(DOMAIN Get(params_init["cpp"])) = 2
    /\ \E n \in DOMAIN Get(params_init["cpp"]) : Get(params_init["cpp"])[n][2] >= 1
    /\ Len(main_queue) = 3

\* C9: the continuous-signal features of data compared with itself are the
\* zero matrix (one zero per channel), with t_start = 0 and with a positive
\* t_start that discards leading samples.
C9_SelfComparisonIsZero ==
    (/\ metric.kind = "mse" /\ metric.stage \in {"features", "errors", "done"}
     /\ metric.simulated = metric.target) =>
       metric.features = [c \in 1..metric.n_channels |-> <<Zero>>]

\* two channels compared with themselves, nonzero samples discarded by t_start
C9_Witness ==
    /\ metric.kind = "mse" /\ metric.stage = "features"
    /\ metric.simulated = metric.target /\ metric.n_channels = 2
    /\ metric.t_start > 0
    /\ \A c \in 1..2 : metric.target[c][1] = 1
    /\ metric.target[1] # metric.target[2]

\* C10: for both metrics the features of n_channels x n_candidates simulated
\* rows have n_channels rows of n_candidates entries each, and the errors
\* computed from them have n_candidates entries.
C10_Shapes ==
    /\ metric.stage \in {"features", "errors", "done"} =>
          /\ Len(metric.features) = metric.n_channels
          /\ \A c \in 1..metric.n_channels :
                Len(metric.features[c]) = metric.n_candidates
    /\ metric.stage \in {"errors", "done"} =>
          DOMAIN metric.errors = 1..metric.n_candidates

\* errors of the event-train metric for one channel and two candidates
C10_Witness ==
    /\ metric.kind = "gamma" /\ metric.stage = "errors"
    /\ metric.n_channels = 1 /\ metric.n_candidates = 2
    /\ metric.features[1][1] # metric.features[1][2]

C13_ConstructionValidated ==
    /\ [](metric.kind = "gamma" /\ (metric.delta # "time" \/ metric.time # "time") =>
             /\ metric.stage \in {"new", "failed"}
             /\ metric.features = <<>> /\ metric.errors = <<>> /\ metric.calc = <<>>)
    /\ [][metric.kind = "gamma" /\ metric.stage = "new"
          /\ (metric.delta # "time" \/ metric.time # "time") =>
             /\ metric'.stage = "failed"
             /\ metric'.error \in {"TypeError", "DimensionMismatchError"}
             /\ "number" \in {metric.delta, metric.time} =>
                   metric'.error = "DimensionMismatchError"]_vars

\* the construction with a proper delta and a bare number for time failed
C13_Witness ==
    /\ metric.kind = "gamma" /\ metric.stage = "failed"
    /\ metric.delta = "time" /\ metric.time = "number"
    /\ metric.error = "DimensionMismatchError"

\* C14: an interpreted run restores the snapshot, pushes params, applies
\* var_init and then advances: the state the network advances from has, for
\* every variable, the var_init value if var_init names it, else the params
\* value if params names it, else the stored value; clock and monitor are the
\* stored ones, so nothing of an earlier run is left; the state after the run
\* is that state advanced by duration.
C14_RunOrder ==
    [][mode = "runtime" /\ last'.op = "run" /\ last'.result = "ok" =>
          LET net == last'.net
              p == last'.params
              vi == var_init[last'.exec]
              snap == Get(stored[net])
              from == last'.advFrom
              to == Advance(from, last'.duration)
          IN  /\ \A x \in Vars :
                    from.neurons[x] =
                       IF vi # None /\ x \in DOMAIN Get(vi) THEN Get(vi)[x]
                       ELSE IF x \in DOMAIN p THEN p[x] ELSE snap.neurons[x]
              /\ from.t = snap.t /\ from.mon = snap.mon
              /\ neurons'[net] = to.neurons /\ clock'[net] = to.t
              /\ monitor'[net] = to.mon]_vars

\* a run was repeated whose params and var_init name v with different values
C14_Witness ==
    /\ mode = "runtime" /\ repeated /\ var_init[last.exec] # None
    /\ "v" \in DOMAIN last.params /\ "v" \in DOMAIN Get(var_init[last.exec])
    /\ last.params["v"] # Get(var_init[last.exec])["v"]
    /\ last.advFrom.neurons["v"] = Get(var_init[last.exec])["v"]
    /\ clock[last.net] = last.duration

\* C17: an initialize that fails leaves the executor as it was: the registry
\* (the name neither added nor replaced), the recorded var_init, the snapshots
\* (none taken of the rejected network), the networks and the device; a run made
\* next on that name looks up what was registered before: it reports KeyError
\* if nothing was, and never runs the rejected network.
C17_FailedInitializeIsNoOp ==
    /\ [][last'.op = "initialize" /\ last'.result # "ok" =>
             /\ networks'[last'.exec][last'.name] = networks[last'.exec][last'.name]
             /\ networks'[last'.exec][last'.name] # last'.net
             /\ var_init'[last'.exec] = var_init[last'.exec]
             /\ stored'[last'.net] = None
             /\ UNCHANGED <<networks, var_init, stored, neurons, clock, monitor,
                            params_init, devvars>>]_vars
    /\ [][(/\ last.op = "initialize" /\ last.result # "ok" /\ last'.op = "run"
           /\ last'.exec = last.exec /\ last'.name = last.name) =>
             /\ last'.net = networks[last.exec][last.name]
             /\ last'.net # last.net
             /\ last'.net = NoNet => last'.result = "KeyError"
             /\ (mode = "runtime" /\ last'.net # NoNet) => last'.result = "ok"]_vars

\* an interpreted initialize failed on a name that holds a stored network, with
\* a var_init on record
C17_Witness ==
    /\ mode = "runtime" /\ last.op = "initialize" /\ last.result = "KeyError"
    /\ networks[last.exec][last.name] \in GoodNets
    /\ stored[networks[last.exec][last.name]] # None
    /\ var_init[last.exec] # None /\ Get(var_init[last.exec]) # <<>>
    /\ stored[last.net] = None

\* C15 as stated: a run that applies a var_init (every interpreted run, the
\* first compiled one) applies the var_init passed to the initialize that
\* registered the name it runs, whatever was initialized under other names.
C15_VarInitOfTheName ==
    [][last'.op = "run" /\ last'.result = "ok" /\ n_run_again' = n_run_again =>
          LET net == last'.net
              own == reg_vi[last'.exec][last'.name]
              before == IF mode = "runtime"
                        THEN SetStates(Restore(NetState(net), stored[net]), last'.params)
                        ELSE NetState(net)
          IN  last'.advFrom = ApplyVarInit(before, own)]_vars

\* C16 as stated: whenever a compiled run takes the re-run path, its executor
\* holds a mapping, the code was generated by a first run of that executor
\* under that name, and the mapping has an identifier for every name of params.
C16_RerunHasOwnMapping ==
    [][mode = "cpp_standalone" /\ has_been_run /\ last'.op = "run"
       /\ last'.net # NoNet =>
          \A b \in Batches :
             CppRunAgain(last'.exec, last'.net, b.dict, b.names, last'.name) =>
                /\ params_init[last'.exec] # None
                /\ compiled_by = Some([exec |-> last'.exec, name |-> last'.name])
                /\ DOMAIN b.dict \subseteq DOMAIN Get(params_init[last'.exec])]_vars

\* C18: with one run at most in progress per name and the names holding
\* distinct network objects, whatever the order the steps of the runs take,
\* every step of the run on a name works on the network registered under it,
\* no step of it changes the state or the snapshot of the network registered
\* under another name, and when the run advances, its
\* network is in the state of its own snapshot overlaid with the params of its
\* own call (and then with the recorded var_init), and advances from there.
C18_InterleavedRunsIsolated ==
    [][\A e \in RtExecs, n \in Names :
          inflight'[n] # inflight[n] =>
             LET own == networks[e][n] IN
             /\ own # NoNet
             /\ \A m \in Names \ {n} :
                   LET other == networks[e][m] IN
                   other # NoNet =>
                      /\ neurons'[other] = neurons[other]
                      /\ clock'[other] = clock[other]
                      /\ monitor'[other] = monitor[other]
                      /\ stored'[other] = stored[other]
             /\ stored'[own] = stored[own]
             /\ inflight[n].pc = "advance" =>
                   LET from == ApplyVarInit(SetStates(Get(stored[own]),
                                                      inflight[n].params), var_init[e])
                       to == Advance(from, inflight[n].duration)
                   IN  /\ NetState(own) = from
                       /\ neurons'[own] = to.neurons /\ clock'[own] = to.t
                       /\ monitor'[own] = to.mon]_vars

\* the runs on both names are about to advance, with different params, after
\* an earlier run on one of the networks
C18_Witness ==
    /\ inflight["fit"].pc = "advance" /\ inflight["alt"].pc = "advance"
    /\ inflight["fit"].params # inflight["alt"].params
    /\ NetState(inflight["fit"].net) # NetState(inflight["alt"].net)
    /\ inflight["fit"].net # inflight["alt"].net

====
